---- MODULE Spec2Model ----
(***************************************************************************)
(* Finsilio interactive bot: the webhook (src/main.py), the LangGraph      *)
(* pipeline (src/app/graph.py) and the service adapters                    *)
(* (src/app/services.py).                                                  *)
(*                                                                         *)
(* A Python str is a sequence of tokens (one character for the text that   *)
(* the code inspects, one whole literal for fixed messages); an f-string   *)
(* is the concatenation of its parts.  A Python value is a record          *)
(* [k, v]: k is "missing" (key not in the state dict), "none", "str",      *)
(* "dict", "list", "raise" (the awaited call raised), "ok".                *)
(***************************************************************************)
EXTENDS Integers, Sequences, FiniteSets, TLC

VARIABLES GROQ_API_KEY, TELEGRAM_BOT_TOKEN, req, pc, state, trace, sent, bot, ora, overlap

vars == <<GROQ_API_KEY, TELEGRAM_BOT_TOKEN, req, pc, state, trace, sent, bot, ora, overlap>>

(* ------------------------------ bounds --------------------------------- *)
NumReq == 2
NumChats == 2
MaxNews == 6
MaxNewsLive == 1

\* headlines[:5]
NEWS_CAP == 5

(* ------------------------------ values --------------------------------- *)
None == [k |-> "none", v |-> <<>>]
Str(s) == [k |-> "str", v |-> s]
Missing == [k |-> "missing", v |-> <<>>]
Raised == [k |-> "raise", v |-> <<>>]
NotCalled == [k |-> "notcalled", v |-> <<>>]

\* Python truthiness of None / str / list / dict values
Truthy(x) ==
  CASE x.k = "str" -> x.v # <<>>
    [] x.k = "list" -> x.v # <<>>
    [] x.k = "dict" -> x.v # {}
    [] OTHER -> FALSE

\* x or d
OrElse(x, d) == IF Truthy(x) THEN x ELSE d

\* dict.get(key) on the state: a missing key reads as None
Get(s, key) == IF s[key].k = "missing" THEN None ELSE s[key]

\* dict.get(key, default)
GetDefault(s, key, d) == IF s[key].k = "missing" THEN d ELSE s[key]

(* ------------------------------ strings -------------------------------- *)
Lower == <<"a", "c", "e", "h", "k", "l", "n", "o", "p", "r", "s", "t">>
UpperOf == <<"A", "C", "E", "H", "K", "L", "N", "O", "P", "R", "S", "T">>

UpperCh(c) ==
  IF \E i \in DOMAIN Lower : Lower[i] = c
  THEN UpperOf[CHOOSE i \in DOMAIN Lower : Lower[i] = c]
  ELSE c

\* str.upper()
Upper(s) == [i \in DOMAIN s |-> UpperCh(s[i])]

IsSpace(c) == c \in {" ", "\n"}

\* str.strip()
Strip(s) ==
  LET idx == {i \in DOMAIN s : ~IsSpace(s[i])}
  IN IF idx = {} THEN <<>>
     ELSE LET lo == CHOOSE i \in idx : \A j \in idx : i <= j
              hi == CHOOSE i \in idx : \A j \in idx : j <= i
          IN SubSeq(s, lo, hi)

\* sub in s
Contains(sub, s) ==
  \E i \in 1..(Len(s) - Len(sub) + 1) : SubSeq(s, i, i + Len(sub) - 1) = sub

STOCK_WORD == <<"S", "T", "O", "C", "K">>
OTHER_WORD == <<"O", "T", "H", "E", "R">>
ERROR_WORD == <<"E", "R", "R", "O", "R">>
NONE_WORD == <<"N", "O", "N", "E">>

(* --------------------------- fixed messages ---------------------------- *)
NO_TICKER_MSG == <<"I could not identify a valid stock ticker in your request. Please try again with a company name like 'Apple' or a ticker like 'AAPL'.">>
PRICE_MSG_HEAD == <<"Sorry, I could not retrieve price data for ">>
PRICE_MSG_TAIL == <<". The ticker might be invalid or the data source is unavailable.">>
NOT_FOUND_MSG == <<"An error occurred: Ticker or price data was not found.">>
UNEXPECTED_MSG == <<"An unexpected error occurred.">>
REJECTION_MSG == <<"I'm sorry, I can only provide analysis for specific stocks and companies.">>
NO_KEY_MSG == <<"Error: Google API Key not configured.">>
NO_CONTENT_MSG == <<"Error: The AI model returned no content.">>
GEN_FAILED_MSG == <<"Error: Failed to generate AI analysis.">>

PriceMsg(ticker) == PRICE_MSG_HEAD \o ticker \o PRICE_MSG_TAIL

(* ------------------------------ services ------------------------------- *)
\* A service call yields [exc, ret, out, bots]: exc is TRUE when the call
\* raised to its caller, ret is the returned value, out is the outcome of the
\* external call it awaited (NotCalled when it made none) and bots lists the
\* bot.send_message attempts.
Return(value, outcome) == [exc |-> FALSE, ret |-> value, out |-> outcome, bots |-> <<>>]
Raise(outcome) == [exc |-> TRUE, ret |-> None, out |-> outcome, bots |-> <<>>]

\* message.content or ""
Content(o) == OrElse(o, Str(<<>>)).v

classify_intent(user_prompt, o) ==
  IF ~GROQ_API_KEY THEN Return(Str(ERROR_WORD), NotCalled)
  ELSE IF o.k = "raise" THEN Return(Str(OTHER_WORD), o)
  ELSE LET classification == Upper(Strip(Content(o)))
       IN Return(Str(IF Contains(STOCK_WORD, classification)
                     THEN STOCK_WORD ELSE OTHER_WORD), o)

extract_entity(user_prompt, o) ==
  IF ~GROQ_API_KEY THEN Return(None, NotCalled)
  ELSE IF o.k = "raise" THEN Return(None, o)
  ELSE LET entity == Strip(Content(o))
       IN Return(IF Contains(NONE_WORD, Upper(entity)) THEN None ELSE Str(entity), o)

get_ticker_from_entity(entity, o) ==
  IF ~GROQ_API_KEY THEN Return(None, NotCalled)
  ELSE IF o.k = "raise" THEN Return(None, o)
  ELSE LET ticker == Upper(Strip(Content(o)))
       IN Return(IF Contains(NONE_WORD, ticker) THEN None ELSE Str(ticker), o)

EmptyDict == [k |-> "dict", v |-> {}]
EmptyList == [k |-> "list", v |-> <<>>]

fetch_yf_data_interactive(ticker, o) ==
  IF o.k = "raise" THEN EmptyDict ELSE o

get_stock_data_interactive(ticker, o) ==
  Return(fetch_yf_data_interactive(ticker, o), o)

\* mutant: the list of headlines is not cut
FirstFiveUncut(headlines) == headlines

FirstFive(headlines) ==
  SubSeq(headlines, 1, IF Len(headlines) < NEWS_CAP THEN Len(headlines) ELSE NEWS_CAP)

\* item.get('content', {}).get('title'); an item whose content is None raises
ItemRaises(item) == item.k = "bad"
Title(item) == item

\* [title for item in items if title]
RECURSIVE Titles(_)
Titles(items) ==
  IF items = <<>> THEN <<>>
  ELSE (IF Truthy(Title(Head(items))) THEN <<Title(Head(items)).v>> ELSE <<>>)
       \o Titles(Tail(items))

\* mutant: the news fetch has no except clause
fetch_stock_news_interactive_unhandled(ticker, o) ==
  IF o.k = "raise" THEN Raise(o)
  ELSE LET items == FirstFive(o.v)
       IN IF \E i \in DOMAIN items : ItemRaises(items[i])
          THEN Raise(o)
          ELSE Return([k |-> "list", v |-> Titles(items)], o)

fetch_stock_news_interactive(ticker, o) ==
  IF o.k = "raise" THEN Return(EmptyList, o)
  ELSE LET items == FirstFive(o.v)
       IN IF \E i \in DOMAIN items : ItemRaises(items[i])
          THEN Return(EmptyList, o)
          ELSE Return([k |-> "list", v |-> Titles(items)], o)

\* mutant: the reply is returned without the fallback for an empty content
generate_single_stock_analysis_no_fallback(ticker, price_data, news_data, o) ==
  IF ~GROQ_API_KEY THEN Return(Str(NO_KEY_MSG), NotCalled)
  ELSE IF o.k = "raise" THEN Return(Str(GEN_FAILED_MSG), o)
  ELSE Return(o, o)

\* the prompt built from price_data and news_data goes only to the external
\* model, whose reply is the outcome o
generate_single_stock_analysis(ticker, price_data, news_data, o) ==
  IF ~GROQ_API_KEY THEN Return(Str(NO_KEY_MSG), NotCalled)
  ELSE IF o.k = "raise" THEN Return(Str(GEN_FAILED_MSG), o)
  ELSE Return(OrElse(o, Str(NO_CONTENT_MSG)), o)

\* mutant: a failed send is attempted a second time
send_telegram_message_retry(chat_id, message, o) ==
  IF ~TELEGRAM_BOT_TOKEN THEN Return(None, NotCalled)
  ELSE IF o.k = "badtoken" THEN Return(None, o)
  ELSE [exc |-> FALSE, ret |-> None, out |-> o,
        bots |-> IF o.k = "raise"
                 THEN <<[chat_id |-> chat_id, text |-> message],
                        [chat_id |-> chat_id, text |-> message]>>
                 ELSE <<[chat_id |-> chat_id, text |-> message]>>]

send_telegram_message(chat_id, message, o) ==
  IF ~TELEGRAM_BOT_TOKEN THEN Return(None, NotCalled)
  ELSE IF o.k = "badtoken" THEN Return(None, o)
  ELSE [exc |-> FALSE, ret |-> None, out |-> o,
        bots |-> <<[chat_id |-> chat_id, text |-> message]>>]

(* ------------------------------- nodes --------------------------------- *)
\* A node yields [exc, upd, calls, outs, msgs, bots]: upd is the returned
\* partial state, calls the services it called in order, outs the outcomes
\* of their external calls, msgs the (chat_id, text) pairs handed to
\* send_telegram_message.
NodeReturn(upd, calls, outs, msgs, bots) ==
  [exc |-> FALSE, upd |-> upd, calls |-> calls, outs |-> outs, msgs |-> msgs, bots |-> bots]
NodeRaise(calls, outs, msgs, bots) ==
  [exc |-> TRUE, upd |-> <<>>, calls |-> calls, outs |-> outs, msgs |-> msgs, bots |-> bots]

classify_intent_node(s, o) ==
  LET c == classify_intent(s["user_prompt"], o)
      calls == <<"classifier">>
      outs == ("classifier" :> c.out)
  IN IF c.exc THEN NodeRaise(calls, outs, <<>>, <<>>)
     ELSE NodeReturn(("intent" :> c.ret), calls, outs, <<>>, <<>>)

\* mutant: extraction and resolution are done by one node
extract_entity_node_and_resolve(s, o) ==
  LET c == extract_entity(s["user_prompt"], o)
      t == get_ticker_from_entity(c.ret, o)
      calls == <<"extractor", "resolver">>
      outs == ("extractor" :> c.out) @@ ("resolver" :> t.out)
  IN IF c.exc \/ t.exc THEN NodeRaise(calls, outs, <<>>, <<>>)
     ELSE NodeReturn(("entity" :> c.ret), calls, outs, <<>>, <<>>)

extract_entity_node(s, o) ==
  LET c == extract_entity(s["user_prompt"], o)
      calls == <<"extractor">>
      outs == ("extractor" :> c.out)
  IN IF c.exc THEN NodeRaise(calls, outs, <<>>, <<>>)
     ELSE NodeReturn(("entity" :> c.ret), calls, outs, <<>>, <<>>)

\* mutant: the resolver is asked even when no entity was extracted
map_entity_to_ticker_node_unguarded(s, o) ==
  LET entity == Get(s, "entity")
      c == get_ticker_from_entity(entity, o)
      calls == <<"resolver">>
      outs == ("resolver" :> c.out)
  IN IF c.exc THEN NodeRaise(calls, outs, <<>>, <<>>)
     ELSE NodeReturn(("ticker" :> c.ret), calls, outs, <<>>, <<>>)

\* mutant: the entity is tested with `is None` instead of its truth value
map_entity_to_ticker_node_is_none(s, o) ==
  LET entity == Get(s, "entity")
  IN IF entity.k = "none" THEN NodeReturn(("ticker" :> None), <<>>, <<>>, <<>>, <<>>)
     ELSE LET c == get_ticker_from_entity(entity, o)
              calls == <<"resolver">>
              outs == ("resolver" :> c.out)
          IN IF c.exc THEN NodeRaise(calls, outs, <<>>, <<>>)
             ELSE NodeReturn(("ticker" :> c.ret), calls, outs, <<>>, <<>>)

map_entity_to_ticker_node(s, o) ==
  LET entity == Get(s, "entity")
  IN IF ~Truthy(entity) THEN NodeReturn(("ticker" :> None), <<>>, <<>>, <<>>, <<>>)
     ELSE LET c == get_ticker_from_entity(entity, o)
              calls == <<"resolver">>
              outs == ("resolver" :> c.out)
          IN IF c.exc THEN NodeRaise(calls, outs, <<>>, <<>>)
             ELSE NodeReturn(("ticker" :> c.ret), calls, outs, <<>>, <<>>)

\* mutant: an empty price mapping does not stop the node
fetch_data_node_no_price_check(s, om, on) ==
  LET ticker == Get(s, "ticker")
  IN IF ~Truthy(ticker)
     THEN NodeReturn(("price_data" :> EmptyDict) @@ ("news_data" :> EmptyList)
                       @@ ("analysis" :> Str(NO_TICKER_MSG)),
                     <<>>, <<>>, <<>>, <<>>)
     ELSE LET p == get_stock_data_interactive(ticker, om)
              n == fetch_stock_news_interactive(ticker, on)
              calls == <<"market", "news">>
              outs == ("market" :> p.out) @@ ("news" :> n.out)
          IN IF p.exc \/ n.exc THEN NodeRaise(calls, outs, <<>>, <<>>)
             ELSE NodeReturn(("price_data" :> p.ret) @@ ("news_data" :> n.ret),
                             calls, outs, <<>>, <<>>)

\* mutant: the short-circuits return empty data without an analysis text
fetch_data_node_no_message(s, om, on) ==
  LET ticker == Get(s, "ticker")
  IN IF ~Truthy(ticker)
     THEN NodeReturn(("price_data" :> EmptyDict) @@ ("news_data" :> EmptyList),
                     <<>>, <<>>, <<>>, <<>>)
     ELSE LET p == get_stock_data_interactive(ticker, om)
              price_data == p.ret
          IN IF p.exc THEN NodeRaise(<<"market">>, ("market" :> p.out), <<>>, <<>>)
             ELSE IF ~Truthy(price_data)
             THEN NodeReturn(("price_data" :> EmptyDict) @@ ("news_data" :> EmptyList),
                             <<"market">>, ("market" :> p.out), <<>>, <<>>)
             ELSE LET n == fetch_stock_news_interactive(ticker, on)
                      calls == <<"market", "news">>
                      outs == ("market" :> p.out) @@ ("news" :> n.out)
                  IN IF n.exc THEN NodeRaise(calls, outs, <<>>, <<>>)
                     ELSE NodeReturn(("price_data" :> price_data) @@ ("news_data" :> n.ret),
                                     calls, outs, <<>>, <<>>)

fetch_data_node(s, om, on) ==
  LET ticker == Get(s, "ticker")
  IN IF ~Truthy(ticker)
     THEN NodeReturn(("price_data" :> EmptyDict) @@ ("news_data" :> EmptyList)
                       @@ ("analysis" :> Str(NO_TICKER_MSG)),
                     <<>>, <<>>, <<>>, <<>>)
     ELSE LET p == get_stock_data_interactive(ticker, om)
              price_data == p.ret
          IN IF p.exc THEN NodeRaise(<<"market">>, ("market" :> p.out), <<>>, <<>>)
             ELSE IF ~Truthy(price_data)
             THEN NodeReturn(("price_data" :> EmptyDict) @@ ("news_data" :> EmptyList)
                               @@ ("analysis" :> Str(PriceMsg(ticker.v))),
                             <<"market">>, ("market" :> p.out), <<>>, <<>>)
             ELSE LET n == fetch_stock_news_interactive(ticker, on)
                      calls == <<"market", "news">>
                      outs == ("market" :> p.out) @@ ("news" :> n.out)
                  IN IF n.exc THEN NodeRaise(calls, outs, <<>>, <<>>)
                     ELSE NodeReturn(("price_data" :> price_data) @@ ("news_data" :> n.ret),
                                     calls, outs, <<>>, <<>>)

\* mutant: no passthrough of an analysis that is already set
generate_analysis_node_no_passthrough(s, o) ==
  LET ticker == Get(s, "ticker")
      price_data == Get(s, "price_data")
      news_data == OrElse(Get(s, "news_data"), EmptyList)
  IN IF ~Truthy(ticker) \/ ~Truthy(price_data)
     THEN NodeReturn(("analysis" :> Str(NOT_FOUND_MSG)), <<>>, <<>>, <<>>, <<>>)
     ELSE LET c == generate_single_stock_analysis(ticker, price_data, news_data, o)
              calls == <<"generator">>
              outs == ("generator" :> c.out)
          IN IF c.exc THEN NodeRaise(calls, outs, <<>>, <<>>)
             ELSE NodeReturn(("analysis" :> c.ret), calls, outs, <<>>, <<>>)

generate_analysis_node(s, o) ==
  IF Truthy(Get(s, "analysis")) THEN NodeReturn(<<>>, <<>>, <<>>, <<>>, <<>>)
  ELSE LET ticker == Get(s, "ticker")
           price_data == Get(s, "price_data")
           news_data == OrElse(Get(s, "news_data"), EmptyList)
       IN IF ~Truthy(ticker) \/ ~Truthy(price_data)
          THEN NodeReturn(("analysis" :> Str(NOT_FOUND_MSG)), <<>>, <<>>, <<>>, <<>>)
          ELSE LET c == generate_single_stock_analysis(ticker, price_data, news_data, o)
                   calls == <<"generator">>
                   outs == ("generator" :> c.out)
               IN IF c.exc THEN NodeRaise(calls, outs, <<>>, <<>>)
                  ELSE NodeReturn(("analysis" :> c.ret), calls, outs, <<>>, <<>>)

send_response_node(s, o) ==
  LET chat_id == s["chat_id"]
      analysis == GetDefault(s, "analysis", Str(UNEXPECTED_MSG))
      c == send_telegram_message(chat_id, analysis, o)
      calls == <<"dispatcher">>
      outs == ("dispatcher" :> c.out)
      msgs == <<[chat_id |-> chat_id, text |-> analysis]>>
  IN IF c.exc THEN NodeRaise(calls, outs, msgs, c.bots)
     ELSE NodeReturn(<<>>, calls, outs, msgs, c.bots)

send_rejection_node(s, o) ==
  LET chat_id == s["chat_id"]
      message == Str(REJECTION_MSG)
      c == send_telegram_message(chat_id, message, o)
      calls == <<"dispatcher">>
      outs == ("dispatcher" :> c.out)
      msgs == <<[chat_id |-> chat_id, text |-> message]>>
  IN IF c.exc THEN NodeRaise(calls, outs, msgs, c.bots)
     ELSE NodeReturn(<<>>, calls, outs, msgs, c.bots)

\* mutant: only the literal OTHER is rejected
route_by_intent_other_only(s) ==
  LET intent == GetDefault(s, "intent", Str(OTHER_WORD))
  IN IF intent = Str(OTHER_WORD) THEN "reject_prompt" ELSE "analyze_stock"

route_by_intent(s) ==
  LET intent == GetDefault(s, "intent", Str(OTHER_WORD))
  IN IF intent = Str(STOCK_WORD) THEN "analyze_stock" ELSE "reject_prompt"

(* ------------------------------- graph --------------------------------- *)
EntryPoint == "classify_intent"

\* mutant: the analyze branch enters the graph at the resolution node
ConditionalEdgesSkipExtract ==
  [analyze_stock |-> "map_entity_to_ticker", reject_prompt |-> "send_rejection"]

ConditionalEdges == [analyze_stock |-> "extract_entity", reject_prompt |-> "send_rejection"]

\* mutant: the rejection node is wired into the response node instead of END
EdgesRejectThenRespond ==
  [extract_entity |-> "map_entity_to_ticker",
   map_entity_to_ticker |-> "fetch_data",
   fetch_data |-> "generate_analysis",
   generate_analysis |-> "send_response",
   send_response |-> "END",
   send_rejection |-> "send_response"]

\* mutant: the data node is wired straight to the response node
EdgesSkipGenerate ==
  [extract_entity |-> "map_entity_to_ticker",
   map_entity_to_ticker |-> "fetch_data",
   fetch_data |-> "send_response",
   generate_analysis |-> "send_response",
   send_response |-> "END",
   send_rejection |-> "END"]

Edges == [extract_entity |-> "map_entity_to_ticker",
          map_entity_to_ticker |-> "fetch_data",
          fetch_data |-> "generate_analysis",
          generate_analysis |-> "send_response",
          send_response |-> "END",
          send_rejection |-> "END"]

\* the state ainvoke starts from
InitialState(user_prompt, chat_id) ==
  [user_prompt |-> user_prompt, chat_id |-> chat_id,
   intent |-> Missing, entity |-> Missing, ticker |-> Missing,
   price_data |-> [k |-> "missing", v |-> {}], news_data |-> Missing,
   analysis |-> Missing]

NoState == InitialState(None, 0)

\* mutant: the update replaces the accumulated fields instead of being merged
MergeReplace(s, upd) ==
  [key \in DOMAIN s |->
     IF key \in DOMAIN upd THEN upd[key]
     ELSE IF key \in {"user_prompt", "chat_id"} THEN s[key]
     ELSE NoState[key]]

\* the shallow merge of a node's partial update into the state
Merge(s, upd) == [key \in DOMAIN s |-> IF key \in DOMAIN upd THEN upd[key] ELSE s[key]]

NoOutcomes ==
  [classifier |-> NotCalled, extractor |-> NotCalled, resolver |-> NotCalled,
   market |-> NotCalled, news |-> NotCalled, generator |-> NotCalled,
   dispatcher |-> NotCalled]

(* --------------------------- the environment --------------------------- *)
Ok == [k |-> "ok", v |-> <<>>]
BadToken == [k |-> "badtoken", v |-> <<>>]
BadItem == [k |-> "bad", v |-> <<>>]
NoMessage == [has_message |-> FALSE, chat_id |-> 0, text |-> None]

PROMPT_A == <<"What's new with Apple?">>
PROMPT_B == <<"What's the weather today?">>
HEADLINE == <<"Apple unveils new products">>
ANALYSIS == <<"**Summary** AAPL ...">>
FAST_INFO == [k |-> "dict", v |-> {<<"lastPrice", 190>>, <<"previousClose", 188>>, <<"marketCap", 3000>>}]

ChatIds == 1..NumChats

RECURSIVE SeqsUpTo(_, _)
SeqsUpTo(S, n) ==
  IF n = 0 THEN {<<>>}
  ELSE LET shorter == SeqsUpTo(S, n - 1)
       IN shorter \cup {Append(q, x) : q \in {t \in shorter : Len(t) = n - 1}, x \in S}

\* what the outside world may hand to the program
\* (SmallWorld: a part of it, for several concurrent runs)
FullWorld ==
  [updates |-> {NoMessage} \cup
               [has_message : {TRUE}, chat_id : ChatIds,
                text : {None, Str(<<>>), Str(PROMPT_A), Str(PROMPT_B)}],
   classifier |-> {Raised, None, Str(STOCK_WORD), Str(OTHER_WORD),
                   Str(<<" ", "s", "t", "o", "c", "k", "\n">>)},
   extractor |-> {Raised, None, Str(NONE_WORD), Str(<<"n", "o", "n", "e", ".">>),
                  Str(<<" ", "A", "p", "p", "l", "e">>)},
   resolver |-> {Raised, None, Str(NONE_WORD), Str(<<"a", "a", "p", "l", " ">>)},
   market |-> {Raised, EmptyDict, FAST_INFO},
   news |-> {Raised} \cup
            {[k |-> "list", v |-> q] : q \in SeqsUpTo({Str(HEADLINE), None, BadItem}, MaxNews)},
   generator |-> {Raised, None, Str(<<>>), Str(ANALYSIS)},
   dispatcher |-> {Ok, Raised, BadToken}]

\* the same world with short news lists, for the liveness check
LiveWorld ==
  [FullWorld EXCEPT !.news = {Raised} \cup
     {[k |-> "list", v |-> q] : q \in SeqsUpTo({Str(HEADLINE), None, BadItem}, MaxNewsLive)}]

SmallWorld ==
  [updates |-> [has_message : {TRUE}, chat_id : {1, NumChats}, text : {Str(PROMPT_A)}],
   classifier |-> {Str(STOCK_WORD), Str(OTHER_WORD)},
   extractor |-> {Str(<<" ", "A", "p", "p", "l", "e">>)},
   resolver |-> {Str(NONE_WORD), Str(<<"a", "a", "p", "l", " ">>)},
   market |-> {Raised, FAST_INFO},
   news |-> {[k |-> "list", v |-> <<Str(HEADLINE)>>]},
   generator |-> {Str(ANALYSIS)},
   dispatcher |-> {Ok}]

\* one full analysis path with every kind of generator reply, for comparing
\* the texts of two runs
GenWorld ==
  [updates |-> [has_message : {TRUE}, chat_id : {1}, text : {Str(PROMPT_A)}],
   classifier |-> {Str(STOCK_WORD)},
   extractor |-> {Str(<<" ", "A", "p", "p", "l", "e">>)},
   resolver |-> {Str(<<"a", "a", "p", "l", " ">>)},
   market |-> {FAST_INFO},
   news |-> {[k |-> "list", v |-> <<Str(HEADLINE)>>]},
   generator |-> {Raised, None, Str(<<>>), Str(ANALYSIS)},
   dispatcher |-> {Ok}]

(* ------------------------------ actions -------------------------------- *)
Requests == DOMAIN pc

InitOf(R) ==
  /\ GROQ_API_KEY \in BOOLEAN
  /\ TELEGRAM_BOT_TOKEN \in BOOLEAN
  /\ req = [r \in R |-> NoMessage]
  /\ pc = [r \in R |-> "idle"]
  /\ state = [r \in R |-> NoState]
  /\ trace = [r \in R |-> <<>>]
  /\ sent = [r \in R |-> <<>>]
  /\ bot = [r \in R |-> <<>>]
  /\ ora = [r \in R |-> NoOutcomes]
  /\ overlap = [r \in R |-> FALSE]

Init == InitOf({1})

InitConc == InitOf(1..NumReq)

\* telegram_webhook: start a run for an update that carries a text
Webhook(r, W) ==
  /\ pc[r] = "idle"
  /\ \E update \in W.updates :
       /\ req' = [req EXCEPT ![r] = update]
       /\ IF update.has_message /\ Truthy(update.text)
          THEN /\ state' = [state EXCEPT ![r] = InitialState(update.text, update.chat_id)]
               /\ pc' = [pc EXCEPT ![r] = EntryPoint]
          ELSE /\ state' = state
               /\ pc' = [pc EXCEPT ![r] = "ignored"]
  /\ UNCHANGED <<GROQ_API_KEY, TELEGRAM_BOT_TOKEN, trace, sent, bot, ora, overlap>>

Running(r) == pc[r] \notin {"idle", "ignored", "END", "aborted"}

\* history: another run was in flight while run r took a step
OthersRunning(r) == \E q \in Requests \ {r} : Running(q)

\* mutant: all runs share one state record
SuperstepShared(r, res, next, routed) ==
  /\ state' = [q \in Requests |-> IF res.exc \/ ~(q = r \/ Running(q)) THEN state[q]
                                   ELSE Merge(state[q], res.upd)]
  /\ pc' = [pc EXCEPT ![r] = IF res.exc THEN "aborted" ELSE next]
  /\ trace' = [trace EXCEPT ![r] = @ \o res.calls \o
                 (IF res.exc THEN <<>> ELSE <<"merge">> \o routed)]
  /\ sent' = [sent EXCEPT ![r] = @ \o res.msgs]
  /\ bot' = [bot EXCEPT ![r] = @ \o res.bots]
  /\ ora' = [ora EXCEPT ![r] = [svc \in DOMAIN @ |-> IF svc \in DOMAIN res.outs THEN res.outs[svc] ELSE @[svc]]]
  /\ overlap' = [overlap EXCEPT ![r] = @ \/ OthersRunning(r)]
  /\ UNCHANGED <<GROQ_API_KEY, TELEGRAM_BOT_TOKEN, req>>

\* one superstep of the compiled graph: run the node of request r, merge its
\* update, follow the edge
Superstep(r, res, next, routed) ==
  /\ state' = [state EXCEPT ![r] = IF res.exc THEN @ ELSE Merge(@, res.upd)]
  /\ pc' = [pc EXCEPT ![r] = IF res.exc THEN "aborted" ELSE next]
  /\ trace' = [trace EXCEPT ![r] = @ \o res.calls \o
                 (IF res.exc THEN <<>> ELSE <<"merge">> \o routed)]
  /\ sent' = [sent EXCEPT ![r] = @ \o res.msgs]
  /\ bot' = [bot EXCEPT ![r] = @ \o res.bots]
  /\ ora' = [ora EXCEPT ![r] = [svc \in DOMAIN @ |-> IF svc \in DOMAIN res.outs THEN res.outs[svc] ELSE @[svc]]]
  /\ overlap' = [overlap EXCEPT ![r] = @ \/ OthersRunning(r)]
  /\ UNCHANGED <<GROQ_API_KEY, TELEGRAM_BOT_TOKEN, req>>

ClassifyIntent(r, W) ==
  /\ pc[r] = "classify_intent"
  /\ \E o \in W.classifier :
       LET res == classify_intent_node(state[r], o)
       IN Superstep(r, res, ConditionalEdges[route_by_intent(Merge(state[r], res.upd))],
                    <<"router">>)

ExtractEntity(r, W) ==
  /\ pc[r] = "extract_entity"
  /\ \E o \in W.extractor :
       Superstep(r, extract_entity_node(state[r], o), Edges[pc[r]], <<>>)

MapEntityToTicker(r, W) ==
  /\ pc[r] = "map_entity_to_ticker"
  /\ \E o \in W.resolver :
       Superstep(r, map_entity_to_ticker_node(state[r], o), Edges[pc[r]], <<>>)

FetchData(r, W) ==
  /\ pc[r] = "fetch_data"
  /\ \E om \in W.market, on \in W.news :
       Superstep(r, fetch_data_node(state[r], om, on), Edges[pc[r]], <<>>)

GenerateAnalysis(r, W) ==
  /\ pc[r] = "generate_analysis"
  /\ \E o \in W.generator :
       Superstep(r, generate_analysis_node(state[r], o), Edges[pc[r]], <<>>)

SendResponse(r, W) ==
  /\ pc[r] = "send_response"
  /\ \E o \in W.dispatcher :
       Superstep(r, send_response_node(state[r], o), Edges[pc[r]], <<>>)

SendRejection(r, W) ==
  /\ pc[r] = "send_rejection"
  /\ \E o \in W.dispatcher :
       Superstep(r, send_rejection_node(state[r], o), Edges[pc[r]], <<>>)

Step(r, W) ==
  \/ Webhook(r, W)
  \/ ClassifyIntent(r, W)
  \/ ExtractEntity(r, W)
  \/ MapEntityToTicker(r, W)
  \/ FetchData(r, W)
  \/ GenerateAnalysis(r, W)
  \/ SendResponse(r, W)
  \/ SendRejection(r, W)

Next == \E r \in Requests : Step(r, FullWorld)

NextLive == \E r \in Requests : Step(r, LiveWorld)

NextConc == \E r \in Requests : Step(r, SmallWorld)

NextGen == \E r \in Requests : Step(r, GenWorld)

Spec == Init /\ [][Next]_vars

\* the event loop resumes a run whenever its awaited call has returned
FairSpec == Init /\ [][NextLive]_vars /\ WF_vars(NextLive)

SpecConc == InitConc /\ [][NextConc]_vars

SpecGen == InitConc /\ [][NextGen]_vars

(* ------------------------------ claims --------------------------------- *)
Called(r, svc) == \E i \in DOMAIN trace[r] : trace[r][i] = svc
Count(r, svc) == Cardinality({i \in DOMAIN trace[r] : trace[r][i] = svc})
Finished(r) == pc[r] = "END"
Started(r) == pc[r] \notin {"idle", "ignored"}
Dispatch(r, text) == <<[chat_id |-> req[r].chat_id, text |-> Str(text)]>>
AfterClassify == {"extract_entity", "map_entity_to_ticker", "fetch_data",
                  "generate_analysis", "send_response", "send_rejection", "END"}
AfterResolve == {"fetch_data", "generate_analysis", "send_response", "END"}
AfterFetch == {"generate_analysis", "send_response", "END"}
Absent(x) == x.k \in {"missing", "none"}
Analyze(r) == pc[r] \in AfterClassify /\ state[r]["intent"] = Str(STOCK_WORD)
Resolved(r) == Analyze(r) /\ pc[r] \in AfterResolve
Fetched(r) == Analyze(r) /\ pc[r] \in AfterFetch

\* C1: a run calls send_telegram_message at most once on every path, and
\* exactly once when it has finished.
C1_ExactlyOneDispatch ==
  \A r \in Requests :
    /\ Len(sent[r]) <= 1
    /\ Count(r, "dispatcher") = Len(sent[r])
    /\ Finished(r) => Len(sent[r]) = 1

C1_Witness ==
  \E r \in Requests :
    /\ Finished(r)
    /\ Len(sent[r]) = 1
    /\ ora[r].generator.k = "raise"
    /\ ora[r].dispatcher.k = "raise"

\* C2: when the classified intent is not STOCK, none of extractor, resolver,
\* market fetcher, news fetcher, generator is ever called and the one
\* dispatched text is the rejection sentence, sent to the request's chat id.
C2_RejectPath ==
  \A r \in Requests :
    (pc[r] \in AfterClassify /\ state[r]["intent"] # Str(STOCK_WORD)) =>
      /\ \A svc \in {"extractor", "resolver", "market", "news", "generator"} : ~Called(r, svc)
      /\ sent[r] \in {<<>>, Dispatch(r, REJECTION_MSG)}
      /\ Finished(r) => sent[r] = Dispatch(r, REJECTION_MSG)

C2_Witness ==
  \E r \in Requests :
    /\ Finished(r)
    /\ ora[r].classifier.k = "raise"
    /\ sent[r] = Dispatch(r, REJECTION_MSG)

\* C3: after classification the stored intent is STOCK or OTHER, also when
\* the classifier failed or the API key is missing.
C3_IntentStockOrOther ==
  \A r \in Requests :
    pc[r] \in AfterClassify => state[r]["intent"] \in {Str(STOCK_WORD), Str(OTHER_WORD)}

\* C4: with the ticker absent at data acquisition, market fetcher, news
\* fetcher and generator are never called and the one dispatched text is the
\* no-ticker message; with the entity absent the ticker is absent and the
\* resolver was not called.
C4_NoTicker ==
  \A r \in Requests :
    /\ (Resolved(r) /\ Absent(state[r]["ticker"])) =>
         /\ \A svc \in {"market", "news", "generator"} : ~Called(r, svc)
         /\ sent[r] \in {<<>>, Dispatch(r, NO_TICKER_MSG)}
         /\ Finished(r) => sent[r] = Dispatch(r, NO_TICKER_MSG)
    /\ (Resolved(r) /\ Absent(state[r]["entity"])) =>
         /\ state[r]["ticker"] = None
         /\ ~Called(r, "resolver")

C4_Witness ==
  \E r \in Requests :
    /\ Finished(r)
    /\ ~Absent(state[r]["entity"])
    /\ Called(r, "resolver")
    /\ Absent(state[r]["ticker"])
    /\ sent[r] = Dispatch(r, NO_TICKER_MSG)

MarketFailed(r) ==
  \/ ora[r].market.k = "raise"
  \/ ora[r].market.k = "dict" /\ ora[r].market.v = {}

\* C5: with a ticker but a failed or empty market fetch, news fetcher and
\* generator are never called, the state holds an empty snapshot and a set
\* analysis text, and the one dispatched text is the price-unavailable
\* message for that ticker; after data acquisition an empty snapshot always
\* comes with a set analysis text.
C5_NoPrice ==
  \A r \in Requests :
    /\ (Fetched(r) /\ MarketFailed(r)) =>
         /\ ~Absent(state[r]["ticker"])
         /\ ~Called(r, "news") /\ ~Called(r, "generator")
         /\ state[r]["price_data"].k = "dict" /\ state[r]["price_data"].v = {}
         /\ state[r]["analysis"] = Str(PriceMsg(state[r]["ticker"].v))
         /\ sent[r] \in {<<>>, Dispatch(r, PriceMsg(state[r]["ticker"].v))}
         /\ Finished(r) => sent[r] = Dispatch(r, PriceMsg(state[r]["ticker"].v))
    /\ (Fetched(r) /\ state[r]["price_data"].v = {}) =>
         /\ state[r]["analysis"].k = "str"
         /\ state[r]["analysis"].v # <<>>

C5_Witness ==
  \E r \in Requests :
    /\ Finished(r)
    /\ ora[r].market.k = "raise"
    /\ sent[r] = Dispatch(r, PriceMsg(<<"A", "A", "P", "L">>))

\* C6: once the analysis text is set no later stage changes it; a generation
\* stage that finds it set calls no generator and leaves the state
\* unchanged; the delivery stage dispatches exactly that text.
C6_AnalysisPassthrough ==
  [][\A r \in Requests :
       /\ state[r]["analysis"].k # "missing" =>
            state'[r]["analysis"] = state[r]["analysis"]
       /\ (pc[r] = "generate_analysis" /\ pc'[r] # pc[r]
             /\ state[r]["analysis"].k # "missing") =>
            /\ state'[r] = state[r]
            /\ trace'[r] = trace[r] \o <<"merge">>
            /\ ora'[r] = ora[r]
       /\ (pc[r] = "send_response" /\ pc'[r] # pc[r]
             /\ state[r]["analysis"].k # "missing") =>
            sent'[r] = <<[chat_id |-> req[r].chat_id, text |-> state[r]["analysis"]]>>
    ]_vars

C6_Witness ==
  \E r \in Requests :
    /\ Finished(r)
    /\ Called(r, "market")
    /\ ~Called(r, "generator")
    /\ sent[r] = <<[chat_id |-> req[r].chat_id, text |-> state[r]["analysis"]]>>

\* C7: whichever collaborators fail, a started run never aborts with an
\* exception and eventually reaches END, right after a delivery stage.
C7_NoAbortReachesEnd ==
  /\ [](\A r \in Requests :
          /\ pc[r] # "aborted"
          /\ Finished(r) => /\ Len(trace[r]) >= 2
                            /\ trace[r][Len(trace[r]) - 1] = "dispatcher")
  /\ ((\E r \in Requests : Started(r)) ~> (\A r \in Requests : Finished(r)))

C7_Witness ==
  \E r \in Requests :
    /\ Finished(r)
    /\ ora[r].news.k = "raise"
    /\ ora[r].dispatcher.k = "raise"
    /\ state[r]["analysis"] = Str(ANALYSIS)

\* C8: a run attempts bot.send_message at most once, never when the token is
\* missing and never a second time after a failure; a delivery stage always
\* returns, leaves the state unchanged and ends the run.
C8_SingleSilentDelivery ==
  [][\A r \in Requests :
       /\ Len(bot'[r]) <= 1
       /\ ~TELEGRAM_BOT_TOKEN => bot'[r] = <<>>
       /\ (pc[r] \in {"send_response", "send_rejection"} /\ pc'[r] # pc[r]) =>
            /\ pc'[r] = "END"
            /\ state'[r] = state[r]
            /\ bot'[r] \in {<<>>, sent'[r]}
    ]_vars

C8_Witness ==
  \E r \in Requests :
    /\ Finished(r)
    /\ ora[r].dispatcher.k = "raise"
    /\ Len(bot[r]) = 1
    /\ sent[r] = Dispatch(r, REJECTION_MSG)

\* what the run of update u dispatches when it runs alone and its
\* collaborators return the outcomes o
Alone(u, o) ==
  LET s0 == InitialState(u.text, u.chat_id)
      s1 == Merge(s0, classify_intent_node(s0, o.classifier).upd)
      s2 == Merge(s1, extract_entity_node(s1, o.extractor).upd)
      s3 == Merge(s2, map_entity_to_ticker_node(s2, o.resolver).upd)
      s4 == Merge(s3, fetch_data_node(s3, o.market, o.news).upd)
      s5 == Merge(s4, generate_analysis_node(s4, o.generator).upd)
  IN IF route_by_intent(s1) = "analyze_stock"
     THEN send_response_node(s5, o.dispatcher).msgs
     ELSE send_rejection_node(s1, o.dispatcher).msgs

\* C9: with runs interleaved, a run dispatches what it would dispatch alone
\* given its own prompt, chat id and collaborator results, and a step of one
\* run changes nothing of another run.
C9_Isolation ==
  [][\A r \in Requests :
       /\ Finished(r)' => sent'[r] = Alone(req'[r], ora'[r])
       /\ pc'[r] # pc[r] =>
            \A q \in Requests \ {r} :
              /\ state'[q] = state[q]
              /\ sent'[q] = sent[q]
              /\ bot'[q] = bot[q]
              /\ pc'[q] = pc[q]
    ]_vars

C9_Witness ==
  \E r \in Requests : \E q \in Requests \ {r} :
    /\ Finished(r) /\ Finished(q)
    /\ overlap[r] /\ overlap[q]
    /\ sent[r] = Dispatch(r, ANALYSIS)
    /\ sent[q] = Dispatch(q, NO_TICKER_MSG)

ReturnedKeys ==
  [classify_intent |-> {"intent"}, extract_entity |-> {"entity"},
   map_entity_to_ticker |-> {"ticker"},
   fetch_data |-> {"price_data", "news_data", "analysis"},
   generate_analysis |-> {"analysis"}, send_response |-> {}, send_rejection |-> {}]

\* C10: a stage changes only the fields it returns, prompt and chat id keep
\* their ingress values, a set field is never removed, and every dispatch
\* goes to the chat id the run was started with.
C10_Frame ==
  [][\A r \in Requests :
       /\ Started(r)' =>
            /\ state'[r]["user_prompt"] = req'[r].text
            /\ state'[r]["chat_id"] = req'[r].chat_id
            /\ \A i \in DOMAIN sent'[r] : sent'[r][i].chat_id = req'[r].chat_id
       /\ Started(r) =>
            \A key \in DOMAIN state[r] \ {"chat_id"} :
              /\ state[r][key].k # "missing" => state'[r][key].k # "missing"
              /\ (pc'[r] # pc[r] /\ key \notin ReturnedKeys[pc[r]]) =>
                   state'[r][key] = state[r][key]
    ]_vars

C10_Witness ==
  \E r \in Requests :
    /\ Finished(r)
    /\ req[r].chat_id = 2
    /\ state[r]["user_prompt"] = Str(PROMPT_B)
    /\ state[r]["news_data"].k = "list" /\ Len(state[r]["news_data"].v) = 5
    /\ sent[r] = Dispatch(r, ANALYSIS)

Collaborators ==
  {"classifier", "extractor", "resolver", "market", "news", "generator", "dispatcher"}

\* positions i < j of the trace of run r that hold two collaborator calls
\* with no state merge between them
SameStageCalls(r) ==
  {p \in (DOMAIN trace[r]) \X (DOMAIN trace[r]) :
     /\ p[1] < p[2]
     /\ trace[r][p[1]] \in Collaborators
     /\ trace[r][p[2]] \in Collaborators
     /\ \A m \in p[1]..p[2] : trace[r][m] # "merge"}

\* C11 as stated: no stage of a run calls more than one collaborator
\* between two consecutive state merges.
C11_OneCallPerStage ==
  \A r \in Requests : SameStageCalls(r) = {}

\* C11: a stage calls at most one collaborator, except the data-acquisition
\* stage, which calls the market fetcher and then, only after a non-empty
\* snapshot, the news fetcher.
C11_OneCallPerStageButFetch ==
  \A r \in Requests :
    \A p \in SameStageCalls(r) :
      /\ p[2] = p[1] + 1
      /\ trace[r][p[1]] = "market"
      /\ trace[r][p[2]] = "news"
      /\ ora[r].market.k = "dict" /\ ora[r].market.v # {}

C11_Witness ==
  \E r \in Requests :
    /\ Finished(r)
    /\ SameStageCalls(r) # {}
    /\ Count(r, "merge") = 6

AfterGenerate == {"send_response", "END"}
Generated(r) == Analyze(r) /\ pc[r] \in AfterGenerate /\ Called(r, "generator")
EmptyReply(o) == o.k = "none" \/ (o.k = "str" /\ o.v = <<>>)

\* the generator call of run r failed, came back empty or was not made for
\* lack of the API key
GeneratorFailed(r) ==
  /\ Generated(r)
  /\ \/ ora[r].generator.k \in {"raise", "notcalled"}
     \/ EmptyReply(ora[r].generator)

\* C12 as stated: every run whose generator failed, returned nothing or
\* could not run holds the same fallback text, and dispatches it.
C12_OneFallbackString ==
  \A r \in Requests : \A q \in Requests :
    (GeneratorFailed(r) /\ GeneratorFailed(q)) =>
      /\ state[r]["analysis"] = state[q]["analysis"]
      /\ Finished(r) => sent[r] = <<[chat_id |-> req[r].chat_id, text |-> state[q]["analysis"]]>>

\* C12: a failed generator call sets the analysis text to GEN_FAILED_MSG, an
\* empty reply sets it to NO_CONTENT_MSG, and the delivery stage dispatches
\* that text; without the API key the service answers NO_KEY_MSG, but such a
\* run is rejected at classification and never calls the generator.
C12_FallbackPerCause ==
  \A r \in Requests :
    /\ ~GROQ_API_KEY =>
         /\ ~Called(r, "generator")
         /\ \A o \in FullWorld.generator :
              generate_single_stock_analysis(Str(<<"A", "A", "P", "L">>), FAST_INFO, EmptyList, o).ret
                = Str(NO_KEY_MSG)
    /\ GeneratorFailed(r) =>
         /\ ora[r].generator.k = "raise" => state[r]["analysis"] = Str(GEN_FAILED_MSG)
         /\ EmptyReply(ora[r].generator) => state[r]["analysis"] = Str(NO_CONTENT_MSG)
         /\ state[r]["analysis"] \in {Str(GEN_FAILED_MSG), Str(NO_CONTENT_MSG)}
         /\ Finished(r) => sent[r] = <<[chat_id |-> req[r].chat_id, text |-> state[r]["analysis"]]>>

C12_Witness ==
  \E r \in Requests :
    /\ Finished(r)
    /\ EmptyReply(ora[r].generator)
    /\ sent[r] = Dispatch(r, NO_CONTENT_MSG)

\* C13: on the analyze path the extractor is called, exactly once, before the
\* resolver; the resolver is called at most once and only in a run whose
\* extracted entity is not absent.
C13_ExtractBeforeResolve ==
  \A r \in Requests :
    /\ Count(r, "extractor") <= 1
    /\ Count(r, "resolver") <= 1
    /\ Resolved(r) => Count(r, "extractor") = 1
    /\ (Resolved(r) /\ Absent(state[r]["entity"])) => ~Called(r, "resolver")
    /\ Called(r, "resolver") =>
         /\ Analyze(r)
         /\ ~Absent(state[r]["entity"])
         /\ \E i \in DOMAIN trace[r] : \E j \in DOMAIN trace[r] :
              i < j /\ trace[r][i] = "extractor" /\ trace[r][j] = "resolver"

C13_Witness ==
  \E r \in Requests :
    /\ pc[r] = "fetch_data"
    /\ trace[r] = <<"classifier", "merge", "router", "extractor", "merge", "resolver", "merge">>
    /\ ~Absent(state[r]["entity"])

FullPathTrace ==
  <<"classifier", "merge", "router", "extractor", "merge", "resolver", "merge",
    "market", "news", "merge", "generator", "merge", "dispatcher", "merge">>

\* C14: a finished run with intent STOCK, a resolved ticker and a non-empty
\* snapshot has called classifier, extractor, resolver, market fetcher, news
\* fetcher, generator, dispatcher once each in that order, with the router
\* consulted once right after classification, and has dispatched the text the
\* generator returned.
C14_FullPath ==
  \A r \in Requests :
    /\ Count(r, "router") <= 1
    /\ pc[r] \in AfterClassify =>
         SubSeq(trace[r], 1, 3) = <<"classifier", "merge", "router">>
    /\ (Finished(r) /\ Analyze(r) /\ Truthy(state[r]["ticker"])
          /\ Truthy(state[r]["price_data"])) =>
         /\ trace[r] = FullPathTrace
         /\ sent[r] = <<[chat_id |-> req[r].chat_id,
                         text |-> generate_single_stock_analysis(
                                    state[r]["ticker"], state[r]["price_data"],
                                    state[r]["news_data"], ora[r].generator).ret]>>

C14_Witness ==
  \E r \in Requests :
    /\ Finished(r)
    /\ trace[r] = FullPathTrace
    /\ sent[r] = Dispatch(r, GEN_FAILED_MSG)

\* the news fetch of run r raised, in the call or while reading the items
NewsFailed(r) ==
  \/ ora[r].news.k = "raise"
  \/ /\ ora[r].news.k = "list"
     /\ \E i \in DOMAIN ora[r].news.v : i <= NEWS_CAP /\ ora[r].news.v[i].k = "bad"

\* C15: the headline list in the state never has more than 5 entries; a
\* failed news fetch leaves an empty list next to the non-empty snapshot, the
\* generator is still called and its result is dispatched.
C15_NewsCapAndBestEffort ==
  \A r \in Requests :
    /\ Len(state[r]["news_data"].v) <= NEWS_CAP
    /\ (Fetched(r) /\ NewsFailed(r)) =>
         /\ state[r]["news_data"] = EmptyList
         /\ Truthy(state[r]["price_data"])
         /\ pc[r] \in AfterGenerate =>
              /\ Count(r, "generator") = 1
              /\ state[r]["analysis"] =
                   generate_single_stock_analysis(state[r]["ticker"], state[r]["price_data"],
                                                  EmptyList, ora[r].generator).ret
         /\ Finished(r) =>
              sent[r] = <<[chat_id |-> req[r].chat_id, text |-> state[r]["analysis"]]>>

C15_Witness ==
  \E r \in Requests :
    /\ Finished(r)
    /\ ora[r].news.k = "raise"
    /\ ora[r].dispatcher.k = "ok"
    /\ Count(r, "generator") = 1
    /\ sent[r] = Dispatch(r, ANALYSIS)

\* C16: in every state of a run, before and after extraction and resolution,
\* a ticker that is not absent comes with an entity that is not absent.
C16_TickerNeedsEntity ==
  \A r \in Requests :
    ~Absent(state[r]["ticker"]) => ~Absent(state[r]["entity"])

C16_Witness ==
  \E r \in Requests :
    /\ pc[r] = "fetch_data"
    /\ ora[r].extractor.k = "str"
    /\ state[r]["entity"] = None
    /\ state[r]["ticker"] = None

\* the texts a run on the analyze path may dispatch, given its state
AnalyzeTexts(r) ==
  {Str(NO_TICKER_MSG)}
    \cup (IF Truthy(state[r]["ticker"])
          THEN {Str(PriceMsg(state[r]["ticker"].v))} ELSE {})
    \cup (IF Called(r, "generator")
          THEN {generate_single_stock_analysis(state[r]["ticker"], state[r]["price_data"],
                                               state[r]["news_data"], ora[r].generator).ret}
          ELSE {})

\* C17: when the response stage runs the analysis text is present and not
\* empty, the text dispatched on the analyze path is the no-ticker message,
\* the price-unavailable message or the value the generator call returned,
\* and neither NOT_FOUND_MSG nor UNEXPECTED_MSG is dispatched in any run.
C17_DefensiveTextsDead ==
  \A r \in Requests :
    /\ pc[r] = "send_response" => Truthy(state[r]["analysis"])
    /\ \A i \in DOMAIN sent[r] :
         /\ Truthy(sent[r][i].text)
         /\ sent[r][i].text \notin {Str(NOT_FOUND_MSG), Str(UNEXPECTED_MSG)}
         /\ Analyze(r) => sent[r][i].text \in AnalyzeTexts(r)

C17_Witness ==
  \E r \in Requests :
    /\ Finished(r)
    /\ Analyze(r)
    /\ ora[r].extractor.k = "raise"
    /\ sent[r] = Dispatch(r, NO_TICKER_MSG)

\* C18: an empty string counts as absent: after an empty entity the resolver
\* is not called, after an empty ticker the market fetcher is not called, and
\* in both cases the no-ticker message is dispatched.
C18_EmptyStringIsAbsent ==
  \A r \in Requests :
    /\ (Resolved(r) /\ state[r]["entity"] = Str(<<>>)) =>
         /\ ~Called(r, "resolver")
         /\ state[r]["ticker"] = None
         /\ ~Called(r, "market")
         /\ Finished(r) => sent[r] = Dispatch(r, NO_TICKER_MSG)
    /\ (Fetched(r) /\ state[r]["ticker"] = Str(<<>>)) =>
         /\ Called(r, "resolver")
         /\ ~Called(r, "market")
         /\ state[r]["analysis"] = Str(NO_TICKER_MSG)
         /\ Finished(r) => sent[r] = Dispatch(r, NO_TICKER_MSG)

C18_Witness ==
  \E r \in Requests :
    /\ Finished(r)
    /\ state[r]["ticker"] = Str(<<>>)
    /\ ora[r].resolver = None
    /\ sent[r] = Dispatch(r, NO_TICKER_MSG)

====
